---- MODULE Spec2Model ----
(***************************************************************************)
(* Model of prometheus-exporter-gcp-quota (src/main.go).                   *)
(*                                                                         *)
(* Two parts of the program are modelled:                                  *)
(*   - the configuration load of main() (lines 193-251): SpecLoad;         *)
(*   - concurrent scrapes of one registered Exporter, Exporter.Collect     *)
(*     and Exporter.scrape (lines 100-168): SpecScrape, FairSpecScrape.    *)
(***************************************************************************)
EXTENDS Integers, Sequences, FiniteSets, TLC

(***************************************************************************)
(* Bounds of the model.                                                    *)
(***************************************************************************)
MaxEntries == 3      \* entries in the configuration document
MaxRegions == 2      \* entries in an Exporter's region allowlist
MaxItems == 1        \* regions in one "list all regions" response
NumScrapes == 2      \* concurrent scrape requests against the Exporter

(***************************************************************************)
(* Program constant: make([]gcpQuota, 256), a slice of LENGTH 256.         *)
(***************************************************************************)
PreallocLen == 256

SeqsUpTo(S, n) == UNION {[1..k -> S] : k \in 0..n}

Range(s) == {s[i] : i \in 1..Len(s)}

(***************************************************************************)
(* Input domains.                                                          *)
(***************************************************************************)
ProjectIds == {"", "a", "A"}
CredPaths == {"", "ok.json", "gone.json"}
\* the credential files os.Stat finds
FilesOnDisk == {"ok.json"}
RegionNames == {"A", "B", "C"}

\* type gcpQuota
gcpQuota == [Project : ProjectIds, Regions : {<<>>}, Credentials : CredPaths]

\* the zero value of gcpQuota, which make([]gcpQuota, 256) fills the slice with
ZeroQuota == [Project |-> "", Regions |-> <<>>, Credentials |-> ""]

\* What the configuration file holds: unreadable or not the expected structure
\* (fatal), no YAML document at all (an empty file), or a sequence of entries.
Unusable == [kind |-> "unusable", entries |-> <<>>]
NoDocument == [kind |-> "no document", entries |-> <<>>]
ConfigFiles ==
    {Unusable, NoDocument}
        \cup {[kind |-> "sequence", entries |-> es] : es \in SeqsUpTo(gcpQuota, MaxEntries)}

VARIABLES
    \* ---- main(): configuration load
    file,               \* the configuration file's content
    pcMain,             \* main's position: "start", "loop", "serving", "fatal"
    projectList,        \* main.projectList
    idx,                \* position of the range loop over projectList
    cfgErrCount,        \* package variable cfgErrCount
    projectConfigList,  \* main.projectConfigList
    registered,         \* the Exporters handed to prometheus.MustRegister
    decision,           \* history: the branch each processed entry took
    \* ---- scrapes of one Exporter
    exporter,           \* the Exporter: project, regions
    locked,             \* Exporter.mutex is held
    pc,                 \* each scrape request's position in Collect
    frame,              \* each request's locals: project, regionList, next r
    ch,                 \* the samples each request's Collect has sent
    events,             \* history: upstream calls and emissions, in order
    calls               \* history: each request's upstream calls and responses

loadVars == <<file, pcMain, projectList, idx, cfgErrCount, projectConfigList,
              registered, decision>>
scrapeVars == <<exporter, locked, pc, frame, ch, events, calls>>
vars == <<loadVars, scrapeVars>>

(***************************************************************************)
(* inArray (lines 78-88): reflect.DeepEqual against each element in turn.  *)
(***************************************************************************)
\* inArray comparing without regard to case
ToLower(s) == IF s = "A" THEN "a" ELSE s

inArrayFold(val, array) ==
    \E i \in 1..Len(array) : ToLower(array[i]) = ToLower(val)

\* inArray with the first element never compared
inArraySkipFirst(val, array) == \E i \in 2..Len(array) : array[i] = val

inArray(val, array) == \E i \in 1..Len(array) : array[i] = val

(***************************************************************************)
(* NewExporter (lines 171-185) for a config entry.                         *)
(***************************************************************************)
NewExporter(q) == [project |-> q.Project, regions |-> q.Regions]

Scrapes == 1..NumScrapes
NoFrame == [project |-> <<>>, regionList |-> <<>>, r |-> 1]

ScrapeIdle ==
    /\ locked = FALSE
    /\ pc = [p \in Scrapes |-> "idle"]
    /\ frame = [p \in Scrapes |-> NoFrame]
    /\ ch = [p \in Scrapes |-> <<>>]
    /\ events = <<>>
    /\ calls = [p \in Scrapes |-> <<>>]

(***************************************************************************)
(* main(): configuration load.                                             *)
(***************************************************************************)
InitLoad ==
    /\ file \in ConfigFiles
    /\ pcMain = "start"
    /\ projectList = [i \in 1..PreallocLen |-> ZeroQuota]
    /\ idx = 1
    /\ cfgErrCount = 0
    /\ projectConfigList = <<>>
    /\ registered = <<>>
    /\ decision = <<>>
    /\ exporter = NewExporter(ZeroQuota)
    /\ ScrapeIdle

\* yaml.Unmarshal(config, &projectList): a sequence node replaces the slice by
\* one of the node's length; input with no document leaves the slice as it is.
Unmarshal(doc, out) == IF doc = NoDocument THEN out ELSE doc.entries

\* lines 196-213: the sentinel, ReadFile and Unmarshal succeed
ReadConfig ==
    /\ pcMain = "start"
    /\ file # Unusable
    /\ cfgErrCount' = 1
    /\ projectList' = Unmarshal(file, projectList)
    /\ pcMain' = "loop"
    /\ UNCHANGED <<file, idx, projectConfigList, registered, decision, scrapeVars>>

\* lines 205-213: log.Fatal on a read or parse error
FatalConfig ==
    /\ pcMain = "start"
    /\ file = Unusable
    /\ cfgErrCount' = 1
    /\ pcMain' = "fatal"
    /\ UNCHANGED <<file, projectList, idx, projectConfigList, registered, decision,
                   scrapeVars>>

InLoop == pcMain = "loop" /\ idx <= Len(projectList)

Skip(tag, errs) ==
    /\ cfgErrCount' = cfgErrCount + errs
    /\ idx' = idx + 1
    /\ decision' = Append(decision, tag)
    /\ UNCHANGED <<file, pcMain, projectList, projectConfigList, registered,
                   scrapeVars>>

\* lines 217-220
SkipNoProject ==
    /\ InLoop
    /\ projectList[idx].Project = ""
    /\ Skip("noProject", 1)

\* the empty-credentials branch without cfgErrCount++
SkipNoCredentialsUncounted ==
    /\ InLoop
    /\ projectList[idx].Project # ""
    /\ projectList[idx].Credentials = ""
    /\ Skip("noCredentials", 0)

\* lines 221-225
SkipNoCredentials ==
    /\ InLoop
    /\ projectList[idx].Project # ""
    /\ projectList[idx].Credentials = ""
    /\ Skip("noCredentials", 1)

Stat(path) == path \in FilesOnDisk

PassedChecks(q) == q.Project # "" /\ q.Credentials # "" /\ Stat(q.Credentials)

\* the missing-file branch with cfgErrCount++
SkipNoFileCounted ==
    /\ InLoop
    /\ projectList[idx].Project # ""
    /\ projectList[idx].Credentials # ""
    /\ ~Stat(projectList[idx].Credentials)
    /\ Skip("noFile", 1)

\* lines 227-230
SkipNoFile ==
    /\ InLoop
    /\ projectList[idx].Project # ""
    /\ projectList[idx].Credentials # ""
    /\ ~Stat(projectList[idx].Credentials)
    /\ Skip("noFile", 0)

\* lines 232-238
Register ==
    /\ InLoop
    /\ PassedChecks(projectList[idx])
    /\ ~inArray(projectList[idx].Project, projectConfigList)
    /\ registered' = Append(registered, NewExporter(projectList[idx]))
    /\ projectConfigList' = Append(projectConfigList, projectList[idx].Project)
    /\ idx' = idx + 1
    /\ decision' = Append(decision, "registered")
    /\ UNCHANGED <<file, pcMain, projectList, cfgErrCount, scrapeVars>>

\* lines 239-242
RejectDuplicate ==
    /\ InLoop
    /\ PassedChecks(projectList[idx])
    /\ inArray(projectList[idx].Project, projectConfigList)
    /\ Skip("duplicate", 1)

\* lines 245-251: the loop is over; register the configExporter and serve
Serve ==
    /\ pcMain = "loop"
    /\ idx > Len(projectList)
    /\ pcMain' = "serving"
    /\ UNCHANGED <<file, projectList, idx, cfgErrCount, projectConfigList,
                   registered, decision, scrapeVars>>

NextLoad ==
    \/ ReadConfig
    \/ FatalConfig
    \/ SkipNoProject
    \/ SkipNoCredentials
    \/ SkipNoFile
    \/ Register
    \/ RejectDuplicate
    \/ Serve

SpecLoad == InitLoad /\ [][NextLoad]_vars

(***************************************************************************)
(* Claims about the configuration load (SpecLoad).                         *)
(***************************************************************************)
Processed == 1..Len(decision)

\* the project ids of the collectors registered so far
RegisteredIds == {registered[i].project : i \in 1..Len(registered)}

\* the project ids of the entries accepted before entry i
AcceptedBefore(i) ==
    {projectList[j].Project : j \in {k \in 1..(i - 1) : decision[k] = "registered"}}

NoCollectorOneError ==
    cfgErrCount' = cfgErrCount + 1 /\ registered' = registered

NoCollectorNoError ==
    cfgErrCount' = cfgErrCount /\ registered' = registered

\* C3 as stated: an entry with an empty project id, an empty credentials path
\* or the project id of an already accepted entry registers no collector and
\* adds exactly 1 to the error counter, whatever its other fields are.
C3_AsStated ==
    [][(InLoop /\ (\/ projectList[idx].Project = ""
                   \/ projectList[idx].Credentials = ""
                   \/ projectList[idx].Project \in RegisteredIds))
          => NoCollectorOneError]_vars

\* C3 amended: the same, where the duplicate case is an entry whose
\* credentials file exists on disk (or whose credentials path is empty).
C3_InvalidEntryCountsOnce ==
    [][(InLoop /\ (\/ projectList[idx].Project = ""
                   \/ projectList[idx].Credentials = ""
                   \/ (/\ projectList[idx].Project \in RegisteredIds
                       /\ Stat(projectList[idx].Credentials))))
          => NoCollectorOneError]_vars

\* C3 witness: a duplicate of an accepted entry was rejected and counted.
C3_Witness ==
    \E i \in Processed :
        /\ decision[i] = "duplicate"
        /\ projectList[i].Project \in AcceptedBefore(i)
        /\ cfgErrCount = 2
        /\ Len(registered) = 1

\* C4 as stated: an entry with a non-empty credentials path that names no file
\* registers no collector and leaves the error counter alone, whatever its
\* project id is.
C4_AsStated ==
    [][(InLoop /\ projectList[idx].Credentials # ""
               /\ ~Stat(projectList[idx].Credentials))
          => NoCollectorNoError]_vars

\* C4 amended: the same for an entry whose project id is not empty.
C4_MissingFileNotCounted ==
    [][(InLoop /\ projectList[idx].Project # ""
               /\ projectList[idx].Credentials # ""
               /\ ~Stat(projectList[idx].Credentials))
          => NoCollectorNoError]_vars

\* C4 witness: an entry was dropped for its missing credentials file and the
\* load ended with the counter at its sentinel and no collector.
C4_Witness ==
    /\ pcMain = "serving"
    /\ \E i \in Processed :
        /\ decision[i] = "noFile"
        /\ projectList[i].Project # ""
        /\ ~Stat(projectList[i].Credentials)
    /\ cfgErrCount = 1
    /\ registered = <<>>

\* the entries of the configuration document (none in an empty file)
Entries == file.entries

Present == {i \in 1..Len(Entries) : PassedChecks(Entries[i])}

Invalid == {i \in 1..Len(Entries) :
                Entries[i].Project = "" \/ Entries[i].Credentials = ""}

Duplicates == {i \in Present :
                \E j \in Present : j < i /\ Entries[j].Project = Entries[i].Project}

\* C5: when the load finishes, the registered collectors number the valid,
\* unique, credential-file-present entries, and the error counter is 1 plus
\* the number of invalid or duplicate entries, for every document, the empty
\* file included.
C5_RoundTrip ==
    pcMain = "serving" =>
        /\ Len(registered) = Cardinality({Entries[i].Project : i \in Present})
        /\ cfgErrCount = 1 + Cardinality(Invalid \cup Duplicates)

DistinctNonEmptyIds ==
    /\ \A i \in 1..Len(registered) : registered[i].project # ""
    /\ \A i, j \in 1..Len(registered) :
        registered[i].project = registered[j].project => i = j

\* C8 as stated: an entry is rejected as a duplicate exactly when its project
\* id equals that of an entry accepted earlier; and the registered collectors
\* always have pairwise distinct, non-empty project ids.
C8_AsStated ==
    /\ \A i \in Processed :
        decision[i] = "duplicate" <=> projectList[i].Project \in AcceptedBefore(i)
    /\ DistinctNonEmptyIds

\* C8 amended: an entry with a non-empty credentials path naming an existing
\* file is rejected as a duplicate exactly when its project id equals
\* (case-sensitively) that of an entry accepted earlier, and no other entry is
\* rejected as a duplicate; the registered collectors always have pairwise
\* distinct, non-empty project ids.
C8_DuplicateOfAccepted ==
    /\ \A i \in Processed :
        decision[i] = "duplicate"
            <=> (/\ PassedChecks(projectList[i])
                 /\ projectList[i].Project \in AcceptedBefore(i))
    /\ DistinctNonEmptyIds

\* C8 witness: an id first seen in an entry dropped for its missing file is
\* accepted later, and a third entry with that id is rejected as a duplicate.
C8_Witness ==
    \E i, j, k \in Processed :
        /\ i < j /\ j < k
        /\ decision[i] = "noFile"
        /\ decision[j] = "registered"
        /\ decision[k] = "duplicate"
        /\ projectList[i].Project = projectList[j].Project
        /\ projectList[j].Project = projectList[k].Project

(***************************************************************************)
(* Scrapes of one Exporter: upstream responses.                            *)
(***************************************************************************)
\* compute.Quota
Cpus == [Metric |-> "CPUS", Limit |-> 8, Usage |-> 2]
Disks == [Metric |-> "DISKS_TOTAL_GB", Limit |-> 4, Usage |-> 4]

\* compute.Project, as far as Collect reads it: with no quota, or with two
ProjectSnapshots == {[Quotas |-> <<>>], [Quotas |-> <<Cpus, Disks>>]}

\* compute.Region, as far as Collect reads it: one per region name, with two
\* quotas, with one and with none
RegionSnapshots ==
    {[Name |-> "A", Quotas |-> <<Cpus, Disks>>],
     [Name |-> "B", Quotas |-> <<Cpus>>],
     [Name |-> "C", Quotas |-> <<>>]}

\* A response is <<>> on an error and <<value>> on success.
Failed == <<>>
ProjectsGetResponses == {Failed} \cup {<<s>> : s \in ProjectSnapshots}
RegionsGetResponses == {Failed} \cup {<<s>> : s \in RegionSnapshots}
RegionsListResponses == {Failed} \cup {<<items>> : items \in SeqsUpTo(RegionSnapshots, MaxItems)}

Allowlists == SeqsUpTo(RegionNames, MaxRegions)

(***************************************************************************)
(* Collect's samples (lines 105-133).                                      *)
(***************************************************************************)
LimitSample(project, region, q) ==
    [desc |-> "gcp_quota_limit", value |-> q.Limit,
     labels |-> <<project, region, q.Metric>>]

UsageSample(project, region, q) ==
    [desc |-> "gcp_quota_usage", value |-> q.Usage,
     labels |-> <<project, region, q.Metric>>]

ProjectUpSample(project, v) ==
    [desc |-> "gcp_quota_project_up", value |-> v, labels |-> <<project>>]

RegionUpSample(project, region, v) ==
    [desc |-> "gcp_quota_regions_up", value |-> v, labels |-> <<project, region>>]

\* lines 106-109 and 119-122: a limit and a usage sample per quota, in order
QuotaSamples(project, region, quotas) ==
    [k \in 1..(2 * Len(quotas)) |->
        IF k % 2 = 1 THEN LimitSample(project, region, quotas[(k + 1) \div 2])
                     ELSE UsageSample(project, region, quotas[k \div 2])]

\* lines 105-113
ProjectSamples(e, prj) ==
    IF prj # Failed
        THEN QuotaSamples(e.project, "", prj[1].Quotas) \o <<ProjectUpSample(e.project, 1)>>
        ELSE <<ProjectUpSample(e.project, 0)>>

RECURSIVE RegionSamples(_, _)
\* lines 116-125, the samples
RegionSamples(e, regionList) ==
    IF regionList = <<>> THEN <<>>
    ELSE QuotaSamples(e.project, Head(regionList).Name, Head(regionList).Quotas)
            \o RegionSamples(e, Tail(regionList))

\* lines 115-125, scrapedRegions
ScrapedRegions(regionList) == [i \in 1..Len(regionList) |-> regionList[i].Name]

\* the region-up block ranging over the scraped regions, not the allowlist
RegionUpOfScraped(e, scrapedRegions) ==
    [i \in 1..Len(scrapedRegions) |->
        IF inArray(scrapedRegions[i], e.regions) \/ e.regions = <<>>
            THEN RegionUpSample(e.project, scrapedRegions[i], 1)
            ELSE RegionUpSample(e.project, scrapedRegions[i], 0)]

\* lines 127-133
RegionUpSamples(e, scrapedRegions) ==
    [i \in 1..Len(e.regions) |->
        IF inArray(e.regions[i], scrapedRegions)
            THEN RegionUpSample(e.project, e.regions[i], 1)
            ELSE RegionUpSample(e.project, e.regions[i], 0)]

(***************************************************************************)
(* Scrapes of one Exporter: Collect and scrape, one action per blocking    *)
(* step of a request p.                                                    *)
(***************************************************************************)
\* main has registered one Exporter, for project "a" with some allowlist, whose
\* service is the client compute.NewService built; no scrape has arrived yet.
InitScrape ==
    /\ \E rs \in Allowlists :
        LET q == [Project |-> "a", Regions |-> rs, Credentials |-> "ok.json"] IN
        /\ file = [kind |-> "sequence", entries |-> <<q>>]
        /\ projectList = <<q>>
        /\ registered = <<NewExporter(q)>>
        /\ exporter = NewExporter(q)
    /\ pcMain = "serving"
    /\ idx = 2
    /\ cfgErrCount = 1
    /\ projectConfigList = <<"a">>
    /\ decision = <<"registered">>
    /\ ScrapeIdle

Event(p, op) == [scrape |-> p, op |-> op]

\* Lock that does not wait for the holder
LockNoWait(p) ==
    /\ pc[p] = "idle"
    /\ locked' = TRUE
    /\ pc' = [pc EXCEPT ![p] = "project"]
    /\ UNCHANGED <<loadVars, exporter, frame, ch, events, calls>>

\* line 101: e.mutex.Lock()
Lock(p) ==
    /\ pc[p] = "idle"
    /\ ~locked
    /\ locked' = TRUE
    /\ pc' = [pc EXCEPT ![p] = "project"]
    /\ UNCHANGED <<loadVars, exporter, frame, ch, events, calls>>

\* lines 139-143: e.service.Projects.Get(e.project).Do()
ProjectsGet(p) ==
    /\ pc[p] = "project"
    /\ \E resp \in ProjectsGetResponses :
        /\ frame' = [frame EXCEPT ![p].project = resp]
        /\ calls' = [calls EXCEPT ![p] =
                        Append(@, [op |-> "Projects.Get", arg |-> "", resp |-> resp])]
    /\ events' = Append(events, Event(p, "Projects.Get"))
    /\ pc' = [pc EXCEPT ![p] = "regions"]
    /\ UNCHANGED <<loadVars, exporter, locked, ch>>

\* RegionsGet with a failed fetch fetched again
RegionsGetRetry(p) ==
    /\ pc[p] = "regions"
    /\ Len(exporter.regions) # 0
    /\ frame[p].r <= Len(exporter.regions)
    /\ Len(calls[p]) <= Len(exporter.regions) + 1
    /\ \E resp \in RegionsGetResponses :
        /\ frame' = [frame EXCEPT
                        ![p].regionList = IF resp = Failed THEN @ ELSE Append(@, resp[1]),
                        ![p].r = IF resp = Failed THEN @ ELSE @ + 1]
        /\ calls' = [calls EXCEPT ![p] =
                        Append(@, [op |-> "Regions.Get",
                                   arg |-> exporter.regions[frame[p].r],
                                   resp |-> resp])]
        /\ pc' = [pc EXCEPT ![p] =
                    IF frame[p].r = Len(exporter.regions) /\ resp # Failed
                        THEN "emit" ELSE "regions"]
    /\ events' = Append(events, Event(p, "Regions.Get"))
    /\ UNCHANGED <<loadVars, exporter, locked, ch>>

\* RegionsGet with a failed fetch dropping the regions fetched before it
RegionsGetFailureResets(p) ==
    /\ pc[p] = "regions"
    /\ Len(exporter.regions) # 0
    /\ frame[p].r <= Len(exporter.regions)
    /\ \E resp \in RegionsGetResponses :
        /\ frame' = [frame EXCEPT
                        ![p].regionList = IF resp = Failed THEN <<>> ELSE Append(@, resp[1]),
                        ![p].r = @ + 1]
        /\ calls' = [calls EXCEPT ![p] =
                        Append(@, [op |-> "Regions.Get",
                                   arg |-> exporter.regions[frame[p].r],
                                   resp |-> resp])]
    /\ events' = Append(events, Event(p, "Regions.Get"))
    /\ pc' = [pc EXCEPT ![p] =
                IF frame[p].r = Len(exporter.regions) THEN "emit" ELSE "regions"]
    /\ UNCHANGED <<loadVars, exporter, locked, ch>>

\* lines 147-155: one iteration, e.service.Regions.Get(e.project, r).Do()
RegionsGet(p) ==
    /\ pc[p] = "regions"
    /\ Len(exporter.regions) # 0
    /\ frame[p].r <= Len(exporter.regions)
    /\ \E resp \in RegionsGetResponses :
        /\ frame' = [frame EXCEPT
                        ![p].regionList = IF resp = Failed THEN @ ELSE Append(@, resp[1]),
                        ![p].r = @ + 1]
        /\ calls' = [calls EXCEPT ![p] =
                        Append(@, [op |-> "Regions.Get",
                                   arg |-> exporter.regions[frame[p].r],
                                   resp |-> resp])]
    /\ events' = Append(events, Event(p, "Regions.Get"))
    /\ pc' = [pc EXCEPT ![p] =
                IF frame[p].r = Len(exporter.regions) THEN "emit" ELSE "regions"]
    /\ UNCHANGED <<loadVars, exporter, locked, ch>>

\* lines 156-166: e.service.Regions.List(e.project).Do()
RegionsList(p) ==
    /\ pc[p] = "regions"
    /\ Len(exporter.regions) = 0
    /\ \E resp \in RegionsListResponses :
        /\ frame' = [frame EXCEPT
                        ![p].regionList = IF resp = Failed THEN <<>> ELSE @ \o resp[1]]
        /\ calls' = [calls EXCEPT ![p] =
                        Append(@, [op |-> "Regions.List", arg |-> "", resp |-> resp])]
    /\ events' = Append(events, Event(p, "Regions.List"))
    /\ pc' = [pc EXCEPT ![p] = "emit"]
    /\ UNCHANGED <<loadVars, exporter, locked, ch>>

\* lines 105-133: the sends on ch, each received by the registry
Emit(p) ==
    /\ pc[p] = "emit"
    /\ ch' = [ch EXCEPT ![p] =
                ProjectSamples(exporter, frame[p].project)
                    \o RegionSamples(exporter, frame[p].regionList)
                    \o RegionUpSamples(exporter, ScrapedRegions(frame[p].regionList))]
    /\ events' = Append(events, Event(p, "emit"))
    /\ pc' = [pc EXCEPT ![p] = "unlock"]
    /\ UNCHANGED <<loadVars, exporter, locked, frame, calls>>

\* line 102 and 134: Collect returns; the deferred e.mutex.Unlock() runs, the
\* call's locals end and the registry has the samples
Unlock(p) ==
    /\ pc[p] = "unlock"
    /\ locked' = FALSE
    /\ pc' = [pc EXCEPT ![p] = "done"]
    /\ frame' = [frame EXCEPT ![p] = NoFrame]
    /\ ch' = [ch EXCEPT ![p] = <<>>]
    /\ calls' = [calls EXCEPT ![p] = <<>>]
    /\ UNCHANGED <<loadVars, exporter, events>>

Step(p) ==
    \/ Lock(p)
    \/ ProjectsGet(p)
    \/ RegionsGet(p)
    \/ RegionsList(p)
    \/ Emit(p)
    \/ Unlock(p)

NextScrape == \E p \in Scrapes : Step(p)

SpecScrape == InitScrape /\ [][NextScrape]_vars

\* Every runnable goroutine is scheduled, every upstream call returns and the
\* registry receives every sample sent.
FairSpecScrape == SpecScrape /\ \A p \in Scrapes : WF_vars(Step(p))

(***************************************************************************)
(* Claims about the scrapes (SpecScrape, FairSpecScrape).                  *)
(***************************************************************************)
InCollect(p) == pc[p] \in {"project", "regions", "emit", "unlock"}

\* Collect has sent all its samples and is about to return
Emitted(p) == pc[p] = "unlock"

SamplesOf(p, desc) == SelectSeq(ch[p], LAMBDA s : s.desc = desc)

\* the successful upstream calls of request p
Succeeded(p, op) ==
    {i \in 1..Len(calls[p]) : calls[p][i].op = op /\ calls[p][i].resp # Failed}

\* the regions the upstream returned to request p
ReturnedRegions(p) ==
    {calls[p][i].resp[1] : i \in Succeeded(p, "Regions.Get")}
        \cup UNION {Range(calls[p][i].resp[1]) : i \in Succeeded(p, "Regions.List")}

ReturnedNames(p) == {s.Name : s \in ReturnedRegions(p)}

\* every quota of the snapshot has its limit and its usage sample in ch[p]
QuotasEmitted(p, region, quotas) ==
    \A k \in 1..Len(quotas) :
        /\ LimitSample(exporter.project, region, quotas[k]) \in Range(ch[p])
        /\ UsageSample(exporter.project, region, quotas[k]) \in Range(ch[p])

MutualExclusion == Cardinality({p \in Scrapes : InCollect(p)}) <= 1

\* the events of one scrape are contiguous in the order of all events
NoInterleaving ==
    \A i, j, k \in 1..Len(events) :
        (i < j /\ j < k /\ events[i].scrape = events[k].scrape)
            => events[j].scrape = events[i].scrape

AllDone == \A p \in Scrapes : pc[p] = "done"

\* C1: at most one scrape of the Exporter is between Lock and Unlock, so the
\* upstream calls and emissions of two scrapes never interleave; and, every
\* upstream call returning and the samples being received, every scrape
\* eventually completes.
C1_Serialized == [](MutualExclusion /\ NoInterleaving) /\ <>AllDone

\* C1 witness: all the scrapes completed, one after the other.
C1_Witness ==
    /\ AllDone
    /\ \A p \in Scrapes : \E i \in 1..Len(events) : events[i].scrape = p
    /\ ~locked

\* C2: with a non-empty allowlist, a scrape emits exactly one region-up gauge
\* per allowlist entry, in order, 1 if the entry names a returned region and 0
\* otherwise; every returned region has its limit and usage gauges, in the
\* allowlist or not.
C2_RegionUpPerAllowlistEntry ==
    \A p \in Scrapes :
        (Emitted(p) /\ exporter.regions # <<>>) =>
            /\ SamplesOf(p, "gcp_quota_regions_up")
                = [i \in 1..Len(exporter.regions) |->
                    RegionUpSample(exporter.project, exporter.regions[i],
                        IF exporter.regions[i] \in ReturnedNames(p) THEN 1 ELSE 0)]
            /\ \A s \in ReturnedRegions(p) : QuotasEmitted(p, s.Name, s.Quotas)

\* C2 witness: allowlist <<A, C>>, regions A and B returned: region-up A:1,
\* C:0, and B in the limit gauges only.
C2_Witness ==
    \E p \in Scrapes :
        /\ Emitted(p)
        /\ exporter.regions = <<"A", "C">>
        /\ ReturnedNames(p) = {"A", "B"}
        /\ SamplesOf(p, "gcp_quota_regions_up")
            = <<RegionUpSample(exporter.project, "A", 1),
                RegionUpSample(exporter.project, "C", 0)>>
        /\ LimitSample(exporter.project, "B", Cpus) \in Range(ch[p])

\* C6: whatever upstream calls fail, a scrape is never stuck or aborted, emits
\* exactly one project-up gauge (1 if the project fetch succeeded, else 0) and
\* the limit and usage gauges of every call that succeeded, and releases the
\* lock.
C6_FailuresDoNotAbort ==
    /\ \A p \in Scrapes : InCollect(p) => ENABLED Step(p)
    /\ \A p \in Scrapes :
        Emitted(p) =>
            /\ SamplesOf(p, "gcp_quota_project_up")
                = <<ProjectUpSample(exporter.project,
                        IF Succeeded(p, "Projects.Get") # {} THEN 1 ELSE 0)>>
            /\ \A i \in Succeeded(p, "Projects.Get") :
                QuotasEmitted(p, "", calls[p][i].resp[1].Quotas)
            /\ \A s \in ReturnedRegions(p) : QuotasEmitted(p, s.Name, s.Quotas)
    /\ (\A p \in Scrapes : ~InCollect(p)) => ~locked

\* C6 witness: the project fetch and the second region fetch failed, the first
\* region fetch succeeded, and its gauges were emitted with project-up 0.
C6_Witness ==
    \E p \in Scrapes :
        /\ Emitted(p)
        /\ Len(calls[p]) = 3
        /\ calls[p][1].resp = Failed
        /\ calls[p][2].resp # Failed
        /\ calls[p][3].resp = Failed
        /\ calls[p][2].resp[1].Quotas # <<>>
        /\ QuotasEmitted(p, calls[p][2].resp[1].Name, calls[p][2].resp[1].Quotas)
        /\ ProjectUpSample(exporter.project, 0) \in Range(ch[p])

\* C7: with an empty allowlist no region-up gauge is ever emitted; and when
\* the project fetch and the list-all call both fail, the scrape emits
\* project-up 0 and nothing else.
C7_MonitorAllNoRegionUp ==
    exporter.regions = <<>> =>
        \A p \in Scrapes :
            /\ SamplesOf(p, "gcp_quota_regions_up") = <<>>
            /\ (Emitted(p) /\ \A i \in 1..Len(calls[p]) : calls[p][i].resp = Failed)
                    => ch[p] = <<ProjectUpSample(exporter.project, 0)>>

\* C7 witness: monitor-all mode, the project fetch and the list-all call both
\* failed, and the scrape emitted project-up 0 alone.
C7_Witness ==
    \E p \in Scrapes :
        /\ Emitted(p)
        /\ exporter.regions = <<>>
        /\ Len(calls[p]) = 2
        /\ calls[p][1].resp = Failed
        /\ calls[p][2].resp = Failed
        /\ ch[p] = <<ProjectUpSample(exporter.project, 0)>>

CallsMade(p) == [i \in 1..Len(calls[p]) |-> <<calls[p][i].op, calls[p][i].arg>>]

CallsExpected ==
    IF exporter.regions # <<>>
        THEN <<<<"Projects.Get", "">>>>
                \o [i \in 1..Len(exporter.regions) |-> <<"Regions.Get", exporter.regions[i]>>]
        ELSE <<<<"Projects.Get", "">>, <<"Regions.List", "">>>>

\* C9: a scrape issues one project fetch, then one single-region fetch per
\* allowlist entry in allowlist order (1 + n calls), or, with an empty
\* allowlist, one list-all call (2 calls); no call is repeated, whichever fail.
C9_CallOrder ==
    \A p \in Scrapes :
        /\ Len(CallsMade(p)) <= Len(CallsExpected)
        /\ CallsMade(p) = SubSeq(CallsExpected, 1, Len(CallsMade(p)))
        /\ pc[p] \in {"emit", "unlock"} => CallsMade(p) = CallsExpected

\* C9 witness: a two-entry allowlist, the first region fetch failed, and the
\* scrape made its three calls.
C9_Witness ==
    \E p \in Scrapes :
        /\ pc[p] = "emit"
        /\ Len(exporter.regions) = 2
        /\ Len(calls[p]) = 3
        /\ calls[p][2].resp = Failed
        /\ calls[p][3].resp # Failed

\* C10: no two samples of one scrape have the same metric name and the same
\* label values.
C10_NoDuplicateSamples ==
    \A p \in Scrapes :
        \A i, j \in 1..Len(ch[p]) :
            (ch[p][i].desc = ch[p][j].desc /\ ch[p][i].labels = ch[p][j].labels)
                => i = j

====
